---- MODULE Spec2Model ----
(***************************************************************************)
(* State-transition model of the MSGAI-Z audit protocol: the shared local  *)
(* state (core_logic.js), the ledger acts (audit_acts.js, kept in          *)
(* src/unnamed/part_000), the infrastructure act (infra_acts.js), the      *)
(* dialogue act and the vibration gauge.                                   *)
(*                                                                         *)
(* Units.  Money is counted in hundredths (1000.00 is 100000); the amounts *)
(* and rates used keep every product and quotient on that grid, so the     *)
(* arithmetic below is exact.  Vibration is counted in halves (H(1) = 2)   *)
(* and the clock in seconds, so that decaying 0.5 per second is one half   *)
(* per clock unit.                                                         *)
(*                                                                         *)
(* Asynchrony.  An async function runs synchronously up to its first       *)
(* await that really suspends, i.e. up to the updateDoc call inside        *)
(* saveSystemState.  The rest of the function (the continuation) runs when *)
(* that write settles.  A pending write therefore carries the name of the  *)
(* continuation that waits for it.                                         *)
(***************************************************************************)
EXTENDS Integers, Sequences, FiniteSets, TLC

VARIABLES currentState, remoteDoc, pending, logos, now, budget

vars == <<currentState, remoteDoc, pending, logos, now, budget>>

-----------------------------------------------------------------------------
(* Bounds of the model *)

MaxActs == 2
MaxTimedActs == 1
MaxTime == 2
MaxPending == 2

-----------------------------------------------------------------------------
(* Configuration *)

VIBRATION_LIMIT == 100

H(x) == 2 * x

NaN == -999999999

isNaN(x) == x = NaN

CURRENCIES == {"ALPHA", "BETA", "GAMMA"}

currency_rates == [ALPHA |-> 1, BETA |-> 10, GAMMA |-> 100]

DefaultAccounts ==
    << [id |-> "CORE_BANK_A", name |-> "Central Bank A",
        ALPHA |-> 100000, BETA |-> 50000, GAMMA |-> 10000],
       [id |-> "USER_AUDIT_B", name |-> "Auditor B",
        ALPHA |-> 5000, BETA |-> 0, GAMMA |-> 0] >>

NoInfrastructure == [k \in {} |-> 0]

DefaultState ==
    [isHalted |-> FALSE,
     vibration_level |-> [value |-> 0, last_decay |-> 0],
     currency_rates |-> currency_rates,
     accounts |-> DefaultAccounts,
     infrastructure |-> NoInfrastructure]

-----------------------------------------------------------------------------
(* Inputs the callers draw from *)

IdInputs == {"", "CORE_BANK_A", "USER_AUDIT_B", "NEW_C"}

NameInputs == {"", "Carol"}

CurrencyInputs == {"ALPHA", "BETA", "DELTA"}

AmountInputs == {NaN, 0, 5000}

SupplyInputs == {NaN, -1, 0, 10000, 10001}

InfraTypes == {"ENERGY", "NET"}

Prompts == {"/status", "/reset vibration", "hello"}

PersistedVibrations == {0, H(100) - 1, H(198), H(200)}

-----------------------------------------------------------------------------
(* Helpers *)

Min(a, b) == IF a < b THEN a ELSE b

Max(a, b) == IF a > b THEN a ELSE b

Abs(a) == IF a < 0 THEN -a ELSE a

RemoveAt(s, i) == [j \in 1..(Len(s) - 1) |-> IF j < i THEN s[j] ELSE s[j + 1]]

Merge_OverDefault(state, updateData) ==
    [f \in DOMAIN state \cup DOMAIN updateData |->
        IF f \in DOMAIN updateData THEN updateData[f] ELSE DefaultState[f]]

Merge(state, updateData) ==
    [f \in DOMAIN state \cup DOMAIN updateData |->
        IF f \in DOMAIN updateData THEN updateData[f] ELSE state[f]]

SetField(acc, k, v) ==
    [f \in DOMAIN acc \cup {k} |-> IF f = k THEN v ELSE acc[f]]

OrZero(acc, k) == IF k \in DOMAIN acc /\ ~isNaN(acc[k]) THEN acc[k] ELSE 0

Plus(x, y) == IF isNaN(x) \/ isNaN(y) THEN NaN ELSE x + y


getCurrentState_Persisted == remoteDoc

getCurrentState == currentState

Unshare(held) == [i \in 1..Len(held) |-> [held[i] EXCEPT !.shared = FALSE]]

Write(updateData, cont) == [patch |-> updateData, cont |-> cont]

-----------------------------------------------------------------------------
(* Vibration gauge *)

addVibrationPatch_NoCeiling(state, amount) ==
    [vibration_level |->
        [state.vibration_level EXCEPT !.value = state.vibration_level.value + amount]]

addVibrationPatch_StampsDecay(state, amount) ==
    [vibration_level |->
        [value |-> Min(state.vibration_level.value + amount, H(VIBRATION_LIMIT) * 2),
         last_decay |-> now]]

addVibrationPatch_ClampsAtLimit(state, amount) ==
    [vibration_level |->
        [state.vibration_level EXCEPT
            !.value = Min(state.vibration_level.value + amount, H(VIBRATION_LIMIT))]]

addVibrationPatch(state, amount) ==
    [vibration_level |->
        [state.vibration_level EXCEPT
            !.value = Min(state.vibration_level.value + amount, H(VIBRATION_LIMIT) * 2)]]

resetVibrationPatch == [vibration_level |-> [value |-> 0, last_decay |-> now]]

-----------------------------------------------------------------------------
Init ==
    /\ remoteDoc \in
         {[DefaultState EXCEPT !.isHalted = h,
                               !.vibration_level = [value |-> v, last_decay |-> 0]] :
            h \in BOOLEAN, v \in PersistedVibrations}
    /\ currentState = remoteDoc
    /\ pending = <<>>
    /\ logos = <<>>
    /\ now = 0
    /\ budget = MaxTimedActs

(* saveSystemState: the local merge and the issue of the write. *)
saveSystemState_WriteFirst(updateData, cont) ==
    /\ currentState' = currentState
    /\ pending' = Append(pending, Write(updateData, cont))
    /\ logos' = logos

saveSystemState(updateData, cont) ==
    /\ currentState' = Merge(currentState, updateData)
    /\ pending' = Append(pending, Write(updateData, cont))
    /\ logos' = IF "vibration_level" \in DOMAIN updateData THEN Unshare(logos) ELSE logos

actForcedHalt_ChecksPersisted ==
    IF remoteDoc.isHalted
    THEN UNCHANGED vars
    ELSE /\ budget > 0
         /\ budget' = budget - 1
         /\ saveSystemState([isHalted |-> TRUE], "HALT")
         /\ UNCHANGED <<remoteDoc, now>>

actForcedHalt ==
    LET state == getCurrentState IN
    IF state.isHalted
    THEN UNCHANGED vars
    ELSE /\ budget > 0
         /\ budget' = budget - 1
         /\ saveSystemState([isHalted |-> TRUE], "HALT")
         /\ UNCHANGED <<remoteDoc, now>>

actRestart ==
    LET state == getCurrentState IN
    IF ~state.isHalted
    THEN UNCHANGED vars
    ELSE /\ budget > 0
         /\ budget' = budget - 1
         /\ saveSystemState([isHalted |-> FALSE], "RESTART")
         /\ UNCHANGED <<remoteDoc, now>>

(* handleCreateAccountAct: newId and newName are the trimmed form fields. *)
DefaultName(newId) == "Audit account " \o newId

handleCreateAccountAct_ChecksPersisted(newId, newName) ==
    LET state == getCurrentState
        newAccount == [id |-> newId,
                       name |-> IF newName = "" THEN DefaultName(newId) ELSE newName,
                       ALPHA |-> 0, BETA |-> 0, GAMMA |-> 0]
        newAccounts == Append(state.accounts, newAccount)
    IN
    IF newId = "" \/ \E i \in 1..Len(remoteDoc.accounts) : remoteDoc.accounts[i].id = newId
    THEN UNCHANGED vars
    ELSE IF state.isHalted
    THEN UNCHANGED vars
    ELSE /\ budget > 0
         /\ budget' = budget - 1
         /\ saveSystemState([accounts |-> newAccounts], "CREATE")
         /\ UNCHANGED <<remoteDoc, now>>

handleCreateAccountAct_Gated(newId, newName) ==
    LET state == getCurrentState
        newAccount == [id |-> newId,
                       name |-> IF newName = "" THEN DefaultName(newId) ELSE newName,
                       ALPHA |-> 0, BETA |-> 0, GAMMA |-> 0]
        newAccounts == Append(state.accounts, newAccount)
    IN
    IF newId = "" \/ \E i \in 1..Len(state.accounts) : state.accounts[i].id = newId
    THEN UNCHANGED vars
    ELSE IF state.isHalted \/ state.vibration_level.value >= H(VIBRATION_LIMIT)
    THEN UNCHANGED vars
    ELSE /\ budget > 0
         /\ budget' = budget - 1
         /\ saveSystemState([accounts |-> newAccounts], "CREATE")
         /\ UNCHANGED <<remoteDoc, now>>

handleCreateAccountAct_Prepends(newId, newName) ==
    LET state == getCurrentState
        newAccount == [id |-> newId,
                       name |-> IF newName = "" THEN DefaultName(newId) ELSE newName,
                       ALPHA |-> 0, BETA |-> 0, GAMMA |-> 0]
        newAccounts == <<newAccount>> \o state.accounts
    IN
    IF newId = "" \/ \E i \in 1..Len(state.accounts) : state.accounts[i].id = newId
    THEN UNCHANGED vars
    ELSE IF state.isHalted
    THEN UNCHANGED vars
    ELSE /\ budget > 0
         /\ budget' = budget - 1
         /\ saveSystemState([accounts |-> newAccounts], "CREATE")
         /\ UNCHANGED <<remoteDoc, now>>

handleCreateAccountAct(newId, newName) ==
    LET state == getCurrentState
        newAccount == [id |-> newId,
                       name |-> IF newName = "" THEN DefaultName(newId) ELSE newName,
                       ALPHA |-> 0, BETA |-> 0, GAMMA |-> 0]
        newAccounts == Append(state.accounts, newAccount)
    IN
    IF newId = "" \/ \E i \in 1..Len(state.accounts) : state.accounts[i].id = newId
    THEN UNCHANGED vars
    ELSE IF state.isHalted
    THEN UNCHANGED vars
    ELSE /\ budget > 0
         /\ budget' = budget - 1
         /\ saveSystemState([accounts |-> newAccounts], "CREATE")
         /\ UNCHANGED <<remoteDoc, now>>

-----------------------------------------------------------------------------
(* validateAct.  find(accounts, id) is Array.prototype.find: the first     *)
(* account with that id, 0 when there is none.  null is the sender the     *)
(* mint act passes.                                                        *)

null == "<null>"

NoAccount == 0

find(accounts, id) ==
    IF \E i \in 1..Len(accounts) : accounts[i].id = id
    THEN CHOOSE i \in 1..Len(accounts) :
            /\ accounts[i].id = id
            /\ \A j \in 1..(i - 1) : accounts[j].id # id
    ELSE NoAccount

Truthy(id) == id # "" /\ id # null

validateAct_NoHaltCheck(senderId, recipientId, amount, currency, state, isMint) ==
    LET sender == find(state.accounts, senderId)
        recipient == find(state.accounts, recipientId)
    IN
    IF state.vibration_level.value >= H(VIBRATION_LIMIT) THEN [error |-> "vibration"]
    ELSE IF isNaN(amount) \/ amount <= 0 THEN [error |-> "amount"]
    ELSE IF currency \notin CURRENCIES THEN [error |-> "currency"]
    ELSE IF ~isMint /\ sender = NoAccount THEN [error |-> "sender"]
    ELSE IF Truthy(recipientId) /\ recipient = NoAccount THEN [error |-> "recipient"]
    ELSE IF ~isMint /\ state.accounts[sender][currency] < amount THEN [error |-> "balance"]
    ELSE [error |-> "", sender |-> sender, recipient |-> recipient,
          amount |-> amount, currency |-> currency]

validateAct_NoBalanceCheck(senderId, recipientId, amount, currency, state, isMint) ==
    LET sender == find(state.accounts, senderId)
        recipient == find(state.accounts, recipientId)
    IN
    IF state.isHalted THEN [error |-> "halted"]
    ELSE IF state.vibration_level.value >= H(VIBRATION_LIMIT) THEN [error |-> "vibration"]
    ELSE IF isNaN(amount) \/ amount <= 0 THEN [error |-> "amount"]
    ELSE IF currency \notin CURRENCIES THEN [error |-> "currency"]
    ELSE IF ~isMint /\ sender = NoAccount THEN [error |-> "sender"]
    ELSE IF Truthy(recipientId) /\ recipient = NoAccount THEN [error |-> "recipient"]
    ELSE [error |-> "", sender |-> sender, recipient |-> recipient,
          amount |-> amount, currency |-> currency]

validateAct_CurrencyFirst(senderId, recipientId, amount, currency, state, isMint) ==
    LET sender == find(state.accounts, senderId)
        recipient == find(state.accounts, recipientId)
    IN
    IF state.isHalted THEN [error |-> "halted"]
    ELSE IF state.vibration_level.value >= H(VIBRATION_LIMIT) THEN [error |-> "vibration"]
    ELSE IF currency \notin CURRENCIES THEN [error |-> "currency"]
    ELSE IF isNaN(amount) \/ amount <= 0 THEN [error |-> "amount"]
    ELSE IF ~isMint /\ sender = NoAccount THEN [error |-> "sender"]
    ELSE IF Truthy(recipientId) /\ recipient = NoAccount THEN [error |-> "recipient"]
    ELSE IF ~isMint /\ state.accounts[sender][currency] < amount THEN [error |-> "balance"]
    ELSE [error |-> "", sender |-> sender, recipient |-> recipient,
          amount |-> amount, currency |-> currency]

validateAct_NoVibrationCheck(senderId, recipientId, amount, currency, state, isMint) ==
    LET sender == find(state.accounts, senderId)
        recipient == find(state.accounts, recipientId)
    IN
    IF state.isHalted THEN [error |-> "halted"]
    ELSE IF isNaN(amount) \/ amount <= 0 THEN [error |-> "amount"]
    ELSE IF currency \notin CURRENCIES THEN [error |-> "currency"]
    ELSE IF ~isMint /\ sender = NoAccount THEN [error |-> "sender"]
    ELSE IF Truthy(recipientId) /\ recipient = NoAccount THEN [error |-> "recipient"]
    ELSE IF ~isMint /\ state.accounts[sender][currency] < amount THEN [error |-> "balance"]
    ELSE [error |-> "", sender |-> sender, recipient |-> recipient,
          amount |-> amount, currency |-> currency]

validateAct(senderId, recipientId, amount, currency, state, isMint) ==
    LET sender == find(state.accounts, senderId)
        recipient == find(state.accounts, recipientId)
    IN
    IF state.isHalted THEN [error |-> "halted"]
    ELSE IF state.vibration_level.value >= H(VIBRATION_LIMIT) THEN [error |-> "vibration"]
    ELSE IF isNaN(amount) \/ amount <= 0 THEN [error |-> "amount"]
    ELSE IF currency \notin CURRENCIES THEN [error |-> "currency"]
    ELSE IF ~isMint /\ sender = NoAccount THEN [error |-> "sender"]
    ELSE IF Truthy(recipientId) /\ recipient = NoAccount THEN [error |-> "recipient"]
    ELSE IF ~isMint /\ state.accounts[sender][currency] < amount THEN [error |-> "balance"]
    ELSE [error |-> "", sender |-> sender, recipient |-> recipient,
          amount |-> amount, currency |-> currency]

(* The replacement of the accounts array each act computes with map(). *)
TransferAccounts(accounts, senderId, recipientId, amount, currency) ==
    [i \in 1..Len(accounts) |->
        IF accounts[i].id = senderId
        THEN SetField(accounts[i], currency, accounts[i][currency] - amount)
        ELSE IF accounts[i].id = recipientId
        THEN SetField(accounts[i], currency, OrZero(accounts[i], currency) + amount)
        ELSE accounts[i]]

MintAccounts(accounts, recipientId, amount, currency) ==
    [i \in 1..Len(accounts) |->
        IF accounts[i].id = recipientId
        THEN SetField(accounts[i], currency, OrZero(accounts[i], currency) + amount)
        ELSE accounts[i]]

RateOf(rates, currency) == IF currency \in DOMAIN rates THEN rates[currency] ELSE NaN

(* amount * (rateTo / rateFrom); undefined rates give NaN *)
receivedAmount(amount, rateFrom, rateTo) ==
    IF isNaN(rateFrom) \/ isNaN(rateTo) \/ isNaN(amount)
    THEN NaN
    ELSE (amount * rateTo) \div rateFrom

ExchangeAccounts(accounts, accountId, amount, fromCurrency, toCurrency, received) ==
    [i \in 1..Len(accounts) |->
        IF accounts[i].id = accountId
        THEN SetField(SetField(accounts[i], fromCurrency, accounts[i][fromCurrency] - amount),
                      toCurrency, Plus(OrZero(accounts[i], toCurrency), received))
        ELSE accounts[i]]

actTransfer(senderId, recipientId, amount, currency) ==
    LET state == getCurrentState
        validation == validateAct(senderId, recipientId, amount, currency, state, FALSE)
    IN
    IF validation.error # ""
    THEN UNCHANGED vars
    ELSE /\ budget > 0
         /\ budget' = budget - 1
         /\ saveSystemState(
              [accounts |-> TransferAccounts(state.accounts, senderId, recipientId,
                                             validation.amount, currency)],
              "TRANSFER")
         /\ UNCHANGED <<remoteDoc, now>>

actMintCurrency_SuppressedAbove90(recipientId, amount, currency) ==
    LET state == getCurrentState
        validation == validateAct(null, recipientId, amount, currency, state, TRUE)
    IN
    IF validation.error # "" \/ state.vibration_level.value > H(90)
    THEN UNCHANGED vars
    ELSE /\ budget > 0
         /\ budget' = budget - 1
         /\ saveSystemState(
              [accounts |-> MintAccounts(state.accounts, recipientId,
                                         validation.amount, currency)],
              "MINT")
         /\ UNCHANGED <<remoteDoc, now>>

actMintCurrency(recipientId, amount, currency) ==
    LET state == getCurrentState
        validation == validateAct(null, recipientId, amount, currency, state, TRUE)
    IN
    IF validation.error # ""
    THEN UNCHANGED vars
    ELSE /\ budget > 0
         /\ budget' = budget - 1
         /\ saveSystemState(
              [accounts |-> MintAccounts(state.accounts, recipientId,
                                         validation.amount, currency)],
              "MINT")
         /\ UNCHANGED <<remoteDoc, now>>

actExchangeCurrency(accountId, amount, fromCurrency, toCurrency) ==
    LET state == getCurrentState
        validation == validateAct(accountId, accountId, amount, fromCurrency, state, FALSE)
        rateFrom == RateOf(state.currency_rates, fromCurrency)
        rateTo == RateOf(state.currency_rates, toCurrency)
    IN
    IF validation.error # ""
    THEN UNCHANGED vars
    ELSE IF fromCurrency = toCurrency
    THEN UNCHANGED vars
    ELSE /\ budget > 0
         /\ budget' = budget - 1
         /\ saveSystemState(
              [accounts |-> ExchangeAccounts(state.accounts, accountId, validation.amount,
                                             fromCurrency, toCurrency,
                                             receivedAmount(amount, rateFrom, rateTo))],
              "EXCHANGE")
         /\ UNCHANGED <<remoteDoc, now>>

-----------------------------------------------------------------------------
(* actAdjustSupply (infra_acts.js); amounts are percentages in hundredths. *)
actAdjustSupply_DropsOther(infrastructureType, amount) ==
    LET targetKey == IF infrastructureType = "ENERGY" THEN "energy_supply" ELSE "net_stability"
        newInfrastructureState ==
            SetField(NoInfrastructure, targetKey, [value |-> amount, last_change |-> now])
    IN
    IF isNaN(amount) \/ amount < 0 \/ amount > 10000
    THEN UNCHANGED vars
    ELSE /\ budget > 0
         /\ budget' = budget - 1
         /\ saveSystemState([infrastructure |-> newInfrastructureState], "INFRA")
         /\ UNCHANGED <<remoteDoc, now>>

actAdjustSupply(infrastructureType, amount) ==
    LET state == getCurrentState
        targetKey == IF infrastructureType = "ENERGY" THEN "energy_supply" ELSE "net_stability"
        newInfrastructureState ==
            SetField(state.infrastructure, targetKey, [value |-> amount, last_change |-> now])
    IN
    IF isNaN(amount) \/ amount < 0 \/ amount > 10000
    THEN UNCHANGED vars
    ELSE /\ budget > 0
         /\ budget' = budget - 1
         /\ saveSystemState([infrastructure |-> newInfrastructureState], "INFRA")
         /\ UNCHANGED <<remoteDoc, now>>

-----------------------------------------------------------------------------
(* handleDialogueAct and callInternalLogos (dialogue_acts.js, kept in      *)
(* core_logic.js).  callInternalLogos takes a snapshot, waits 500 ms, and  *)
(* then charges 0.5; the snapshot it holds shares the vibration_level      *)
(* object with currentState until that object is replaced.                 *)
handleDialogueAct(prompt) ==
    LET state == getCurrentState IN
    IF state.isHalted
    THEN UNCHANGED vars
    ELSE IF prompt = "/status"
    THEN UNCHANGED vars
    ELSE IF prompt = "/reset vibration"
    THEN /\ budget > 0
         /\ budget' = budget - 1
         /\ saveSystemState(resetVibrationPatch, "RESET")
         /\ UNCHANGED <<remoteDoc, now>>
    ELSE IF state.vibration_level.value >= H(VIBRATION_LIMIT)
    THEN UNCHANGED vars
    ELSE /\ budget > 0
         /\ budget' = budget - 1
         /\ logos' = Append(logos, [vibration_level |-> state.vibration_level,
                                    shared |-> TRUE])
         /\ UNCHANGED <<currentState, remoteDoc, pending, now>>

mobius_transform_response(state) ==
    IF 10 * state.vibration_level.value >= 9 * H(VIBRATION_LIMIT) THEN "LOGOSWARN" ELSE "LOGOS"

LogosTimer ==
    /\ logos # <<>>
    /\ currentState' = Merge(currentState, addVibrationPatch(currentState, 1))
    /\ pending' = Append(pending,
                         Write(addVibrationPatch(currentState, 1),
                               mobius_transform_response(Head(logos))))
    /\ logos' = Unshare(Tail(logos))
    /\ UNCHANGED <<remoteDoc, now, budget>>

-----------------------------------------------------------------------------
(* decayVibration, run by the one-second interval timer. *)
decayVibration_NoFloor ==
    LET lastDecay == currentState.vibration_level.last_decay
        timeElapsed == now - lastDecay
        decayAmount == timeElapsed
        newValue == currentState.vibration_level.value - decayAmount
        decayed == [value |-> newValue, last_decay |-> now]
    IN
    /\ Len(pending) < MaxPending
    /\ IF timeElapsed >= 1
       THEN /\ IF Abs(newValue - currentState.vibration_level.value) >= H(1)
               THEN saveSystemState([vibration_level |-> decayed], "NONE")
               ELSE /\ currentState' = [currentState EXCEPT !.vibration_level = decayed]
                    /\ logos' = [i \in 1..Len(logos) |->
                                   IF logos[i].shared
                                   THEN [logos[i] EXCEPT !.vibration_level = decayed]
                                   ELSE logos[i]]
                    /\ UNCHANGED pending
            /\ UNCHANGED <<remoteDoc, now, budget>>
       ELSE UNCHANGED vars

decayVibration_AlwaysSaves ==
    LET lastDecay == currentState.vibration_level.last_decay
        timeElapsed == now - lastDecay
        decayAmount == timeElapsed
        newValue == Max(0, currentState.vibration_level.value - decayAmount)
        decayed == [value |-> newValue, last_decay |-> now]
    IN
    /\ Len(pending) < MaxPending
    /\ IF timeElapsed >= 1
       THEN /\ IF Abs(newValue - currentState.vibration_level.value) >= 1
               THEN saveSystemState([vibration_level |-> decayed], "NONE")
               ELSE /\ currentState' = [currentState EXCEPT !.vibration_level = decayed]
                    /\ logos' = [i \in 1..Len(logos) |->
                                   IF logos[i].shared
                                   THEN [logos[i] EXCEPT !.vibration_level = decayed]
                                   ELSE logos[i]]
                    /\ UNCHANGED pending
            /\ UNCHANGED <<remoteDoc, now, budget>>
       ELSE UNCHANGED vars

decayVibration_FloorAtLimit ==
    LET lastDecay == currentState.vibration_level.last_decay
        timeElapsed == now - lastDecay
        decayAmount == timeElapsed
        newValue == Max(H(VIBRATION_LIMIT), currentState.vibration_level.value - decayAmount)
        decayed == [value |-> newValue, last_decay |-> now]
    IN
    /\ Len(pending) < MaxPending
    /\ IF timeElapsed >= 1
       THEN /\ IF Abs(newValue - currentState.vibration_level.value) >= H(1)
               THEN saveSystemState([vibration_level |-> decayed], "NONE")
               ELSE /\ currentState' = [currentState EXCEPT !.vibration_level = decayed]
                    /\ logos' = [i \in 1..Len(logos) |->
                                   IF logos[i].shared
                                   THEN [logos[i] EXCEPT !.vibration_level = decayed]
                                   ELSE logos[i]]
                    /\ UNCHANGED pending
            /\ UNCHANGED <<remoteDoc, now, budget>>
       ELSE UNCHANGED vars

decayVibration ==
    LET lastDecay == currentState.vibration_level.last_decay
        timeElapsed == now - lastDecay
        decayAmount == timeElapsed
        newValue == Max(0, currentState.vibration_level.value - decayAmount)
        decayed == [value |-> newValue, last_decay |-> now]
    IN
    /\ Len(pending) < MaxPending
    /\ IF timeElapsed >= 1
       THEN /\ IF Abs(newValue - currentState.vibration_level.value) >= H(1)
               THEN saveSystemState([vibration_level |-> decayed], "NONE")
               ELSE /\ currentState' = [currentState EXCEPT !.vibration_level = decayed]
                    /\ logos' = [i \in 1..Len(logos) |->
                                   IF logos[i].shared
                                   THEN [logos[i] EXCEPT !.vibration_level = decayed]
                                   ELSE logos[i]]
                    /\ UNCHANGED pending
            /\ UNCHANGED <<remoteDoc, now, budget>>
       ELSE UNCHANGED vars

AdvanceClock ==
    /\ now < MaxTime
    /\ now' = now + 1
    /\ UNCHANGED <<currentState, remoteDoc, pending, logos, budget>>

-----------------------------------------------------------------------------
(* The persistence collaborator.  A pending updateDoc settles at any time, *)
(* in any order, and either succeeds (the patch is merged into the         *)
(* document) or fails (saveSystemState logs the error).  The continuation  *)
(* that awaited the write then runs: the acts of audit_acts.js log and     *)
(* charge their cost, actAdjustSupply charges and logs afterwards.         *)

Cost(cont) ==
    CASE cont = "HALT" -> H(5)
      [] cont = "RESTART" -> H(5)
      [] cont = "CREATE" -> H(1)
      [] cont = "TRANSFER" -> H(2)
      [] cont = "MINT" -> H(3)
      [] cont = "EXCHANGE" -> H(1)
      [] cont = "INFRA" -> H(1)
      [] OTHER -> 0

Settle_FailureAborts(i, ok) ==
    LET w == pending[i]
        rest == RemoveAt(pending, i)
        charge == addVibrationPatch(currentState, Cost(w.cont))
    IN
    /\ remoteDoc' = IF ok THEN Merge(remoteDoc, w.patch) ELSE remoteDoc
    /\ IF ok /\ Cost(w.cont) > 0
       THEN /\ currentState' = Merge(currentState, charge)
            /\ pending' = Append(rest, Write(charge, IF w.cont = "INFRA" THEN "INFRALOG" ELSE "NONE"))
            /\ logos' = Unshare(logos)
       ELSE /\ pending' = rest
            /\ UNCHANGED <<currentState, logos>>
    /\ UNCHANGED <<now, budget>>

Settle(i, ok) ==
    LET w == pending[i]
        rest == RemoveAt(pending, i)
        charge == addVibrationPatch(currentState, Cost(w.cont))
    IN
    /\ remoteDoc' = IF ok THEN Merge(remoteDoc, w.patch) ELSE remoteDoc
    /\ IF Cost(w.cont) > 0
       THEN /\ currentState' = Merge(currentState, charge)
            /\ pending' = Append(rest, Write(charge, IF w.cont = "INFRA" THEN "INFRALOG" ELSE "NONE"))
            /\ logos' = Unshare(logos)
       ELSE /\ pending' = rest
            /\ UNCHANGED <<currentState, logos>>
    /\ UNCHANGED <<now, budget>>

(* The data an onSnapshot callback receives: the document as the client   *)
(* sees it, i.e. the persisted document with the writes that are still     *)
(* pending laid over it in the order they were issued.                     *)
RECURSIVE Overlay(_, _)
Overlay(document, writes) ==
    IF writes = <<>> THEN document
    ELSE Overlay(Merge(document, Head(writes).patch), Tail(writes))

firestoreData == Overlay(remoteDoc, pending)

(* onSnapshot listener: the received data is merged over the local state. *)
onSnapshot ==
    /\ currentState' = Merge(currentState, firestoreData)
    /\ logos' = Unshare(logos)
    /\ UNCHANGED <<remoteDoc, pending, now, budget>>

-----------------------------------------------------------------------------
LedgerActs ==
    \/ actForcedHalt
    \/ actRestart
    \/ \E newId \in IdInputs, newName \in NameInputs : handleCreateAccountAct(newId, newName)
    \/ \E s \in IdInputs, r \in IdInputs, a \in AmountInputs, c \in CurrencyInputs :
          actTransfer(s, r, a, c)
    \/ \E r \in IdInputs, a \in AmountInputs, c \in CurrencyInputs :
          actMintCurrency(r, a, c)
    \/ \E x \in IdInputs, a \in AmountInputs, f \in CurrencyInputs, t \in CurrencyInputs :
          actExchangeCurrency(x, a, f, t)
    \/ \E k \in InfraTypes, a \in SupplyInputs : actAdjustSupply(k, a)

Dialogue ==
    \/ \E p \in Prompts : handleDialogueAct(p)
    \/ LogosTimer

Persistence ==
    \/ \E i \in 1..Len(pending), ok \in BOOLEAN : Settle(i, ok)
    \/ onSnapshot

Timers ==
    \/ decayVibration
    \/ AdvanceClock

(* The whole program: acts, dialogue, timers and the persistence           *)
(* collaborator, with MaxTimedActs invocations.                            *)
Next == LedgerActs \/ Dialogue \/ Persistence \/ Timers

Spec == Init /\ [][Next]_vars

(* The acts and the persistence collaborator while no timer fires, with    *)
(* MaxActs invocations.                                                    *)
InitActs ==
    /\ remoteDoc = DefaultState
    /\ currentState = remoteDoc
    /\ pending = <<>>
    /\ logos = <<>>
    /\ now = 0
    /\ budget = MaxActs

NextActs == LedgerActs \/ Persistence

SpecActs == InitActs /\ [][NextActs]_vars

(* The decay timer left alone: no act is invoked any more, the interval    *)
(* timer of core_logic.js keeps firing while the clock runs, and the       *)
(* writes in flight settle.  The start is a state at or above the limit,   *)
(* synchronised with the document or with the charge that took the value   *)
(* over the limit still in flight.  The clock is in seconds since the      *)
(* persisted last_decay: it starts DecayClockStart seconds after it and    *)
(* runs to MaxDecayTime, the time 0.5 per second takes to wear off 105.    *)
DecayStarts == {H(VIBRATION_LIMIT), H(VIBRATION_LIMIT) + 1, H(VIBRATION_LIMIT + 2)}

MaxDecayTime == 210

DecayClockStart == 190

InitDecay ==
    /\ now = DecayClockStart
    /\ logos = <<>>
    /\ budget = MaxTimedActs
    /\ \E h \in BOOLEAN :
          \/ \E v \in DecayStarts :
                /\ remoteDoc = [DefaultState EXCEPT
                                  !.isHalted = h,
                                  !.vibration_level = [value |-> v, last_decay |-> 0]]
                /\ currentState = remoteDoc
                /\ pending = <<>>
          \/ LET persisted == [DefaultState EXCEPT
                                 !.isHalted = h,
                                 !.vibration_level = [value |-> H(VIBRATION_LIMIT) - 1,
                                                      last_decay |-> 0]]
                 charge == addVibrationPatch(persisted, Cost("MINT"))
             IN /\ remoteDoc = persisted
                /\ currentState = Merge(persisted, charge)
                /\ pending = <<Write(charge, "NONE")>>

AdvanceDecayClock ==
    /\ now < MaxDecayTime
    /\ currentState.vibration_level.last_decay = now
    /\ now' = now + 1
    /\ UNCHANGED <<currentState, remoteDoc, pending, logos, budget>>

NextDecay == decayVibration \/ AdvanceDecayClock \/ Persistence

SpecDecay ==
    /\ InitDecay
    /\ [][NextDecay]_vars
    /\ WF_vars(decayVibration)
    /\ SF_vars(AdvanceDecayClock)
    /\ WF_vars(\E i \in 1..Len(pending), ok \in BOOLEAN : Settle(i, ok))

-----------------------------------------------------------------------------
(* Vocabulary of the properties *)

HasAccount(state, id) == \E i \in 1..Len(state.accounts) : state.accounts[i].id = id

Balance(state, id, currency) ==
    LET i == CHOOSE j \in 1..Len(state.accounts) : state.accounts[j].id = id
    IN state.accounts[i][currency]

RECURSIVE SumField(_, _)
SumField(accounts, currency) ==
    IF accounts = <<>> THEN 0
    ELSE Head(accounts)[currency] + SumField(Tail(accounts), currency)

Supply(state, currency) == SumField(state.accounts, currency)

Vibration == currentState.vibration_level.value

Gated(state) == state.isHalted \/ state.vibration_level.value >= H(VIBRATION_LIMIT)

InvalidAmount(amount) == isNaN(amount) \/ amount <= 0

TransferMustReject(s, r, a, c) ==
    \/ Gated(currentState)
    \/ InvalidAmount(a)
    \/ c \notin CURRENCIES
    \/ ~HasAccount(currentState, s)
    \/ (r # "" /\ ~HasAccount(currentState, r))
    \/ Balance(currentState, s, c) < a

MintMustReject(r, a, c) ==
    \/ Gated(currentState)
    \/ InvalidAmount(a)
    \/ c \notin CURRENCIES
    \/ (r # "" /\ ~HasAccount(currentState, r))

ExchangeMustReject(x, a, f, t) == TransferMustReject(x, x, a, f) \/ f = t

CreateMustReject(newId) ==
    newId = "" \/ HasAccount(currentState, newId) \/ currentState.isHalted

SupplyMustReject(a) == isNaN(a) \/ a < 0 \/ a > 10000

NothingTouched == UNCHANGED <<currentState, remoteDoc, pending>>

(* C1: an act whose validation fails (halted, vibration at the limit,      *)
(* invalid amount, unknown currency, missing account, insufficient         *)
(* balance, same currency, empty or duplicate id, out-of-range supply, or  *)
(* the halt/restart no-op) leaves the local state, the persisted document  *)
(* and the queue of writes as they were: nothing is written, nothing is    *)
(* charged: a step that touches any of them is not a rejected act.        *)
C1_RejectedActChangesNothing ==
    [][ ~NothingTouched =>
        /\ ~(currentState.isHalted /\ actForcedHalt)
        /\ ~(~currentState.isHalted /\ actRestart)
        /\ \A newId \in IdInputs, newName \in NameInputs :
              ~(CreateMustReject(newId) /\ handleCreateAccountAct(newId, newName))
        /\ \A s \in IdInputs, r \in IdInputs, a \in AmountInputs, c \in CurrencyInputs :
              ~(TransferMustReject(s, r, a, c) /\ actTransfer(s, r, a, c))
        /\ \A r \in IdInputs, a \in AmountInputs, c \in CurrencyInputs :
              ~(MintMustReject(r, a, c) /\ actMintCurrency(r, a, c))
        /\ \A x \in IdInputs, a \in AmountInputs, f \in CurrencyInputs, t \in CurrencyInputs :
              ~(ExchangeMustReject(x, a, f, t) /\ actExchangeCurrency(x, a, f, t))
        /\ \A k \in InfraTypes, a \in SupplyInputs :
              ~(SupplyMustReject(a) /\ actAdjustSupply(k, a))
      ]_vars

(* A halted system at the vibration limit whose halt is still being        *)
(* written: every act invoked here is rejected.                            *)
C1_Witness ==
    /\ currentState.isHalted
    /\ Vibration >= H(VIBRATION_LIMIT)
    /\ \E i \in 1..Len(pending) : pending[i].cont = "HALT"

OtherBalancesKept(ids, currency) ==
    /\ Len(currentState'.accounts) = Len(currentState.accounts)
    /\ \A i \in 1..Len(currentState.accounts) :
          \/ currentState'.accounts[i] = currentState.accounts[i]
          \/ /\ currentState.accounts[i].id \in ids
             /\ currentState'.accounts[i] =
                   [currentState.accounts[i] EXCEPT
                       ![currency] = currentState'.accounts[i][currency]]

(* C2: every Transfer(a, b, amt, cur) the validator accepts, whatever ids  *)
(* a and b it accepts, keeps the total supply of cur, debits a by exactly  *)
(* amt, credits b by exactly amt and leaves every other balance alone.     *)
C2_TransferConservesSupply ==
    [][ ~NothingTouched =>
        \A s \in IdInputs, r \in IdInputs, a \in AmountInputs, c \in CurrencyInputs :
           actTransfer(s, r, a, c) =>
              /\ Supply(currentState', c) = Supply(currentState, c)
              /\ OtherBalancesKept({s, r}, c)
              /\ (s # r) =>
                    Balance(currentState', s, c) = Balance(currentState, s, c) - a
              /\ (s # r /\ HasAccount(currentState, r)) =>
                    Balance(currentState', r, c) = Balance(currentState, r, c) + a
      ]_vars

(* C3: every Mint(b, amt, cur) the validator accepts credits an account b  *)
(* by exactly amt, changes no other balance, and raises the total supply   *)
(* of cur by exactly amt.                                                  *)
C3_MintRaisesSupply ==
    [][ ~NothingTouched =>
        \A r \in IdInputs, a \in AmountInputs, c \in CurrencyInputs :
           actMintCurrency(r, a, c) =>
              /\ Supply(currentState', c) = Supply(currentState, c) + a
              /\ OtherBalancesKept({r}, c)
              /\ HasAccount(currentState, r)
              /\ Balance(currentState', r, c) = Balance(currentState, r, c) + a
      ]_vars

(* C4: every successful Exchange(a, amt, from, to) debits a's from-balance *)
(* by exactly amt, credits a's to-balance by exactly amt * rates[to] /     *)
(* rates[from], a well-defined number, and changes no other account and   *)
(* no other currency field of a.                                           *)
C4_ExchangeArithmetic ==
    [][ ~NothingTouched =>
        \A x \in IdInputs, a \in AmountInputs, f \in CurrencyInputs, t \in CurrencyInputs :
           actExchangeCurrency(x, a, f, t) =>
              LET rates == currentState.currency_rates
                  i == CHOOSE j \in 1..Len(currentState.accounts) :
                          currentState.accounts[j].id = x
                  before == currentState.accounts[i]
                  after == currentState'.accounts[i]
              IN /\ Len(currentState'.accounts) = Len(currentState.accounts)
                 /\ \A j \in 1..Len(currentState.accounts) :
                       j # i => currentState'.accounts[j] = currentState.accounts[j]
                 /\ t \in DOMAIN rates
                 /\ after[f] = before[f] - a
                 /\ after[t] = before[t] + (a * rates[t]) \div rates[f]
                 /\ \A k \in DOMAIN before : k \notin {f, t} => after[k] = before[k]
      ]_vars

(* C5: in every reachable state the vibration value lies between 0 and the *)
(* hard ceiling 2 x VIBRATION_LIMIT, whatever acts, dialogue charges,       *)
(* resets and decay ticks have been interleaved.                            *)
C5_VibrationWithinCeiling ==
    /\ 0 <= Vibration
    /\ Vibration <= H(2 * VIBRATION_LIMIT)

(* The ceiling is reached: a charge that would pass it has been clamped.   *)
C5_Witness ==
    /\ Vibration = H(2 * VIBRATION_LIMIT)
    /\ budget < MaxTimedActs

(* C6: in every reachable local state every balance of every account in a  *)
(* configured currency is >= 0, also while several acts are in flight.     *)
C6_BalancesNonNegative ==
    \A i \in 1..Len(currentState.accounts) :
       \A c \in CURRENCIES : currentState.accounts[i][c] >= 0

(* An account debited down to exactly zero while the writes of two ledger  *)
(* acts are still in flight and uncharged.                                 *)
C6_Witness ==
    /\ Balance(currentState, "USER_AUDIT_B", "ALPHA") = 0
    /\ Len(pending) = 2
    /\ \A i \in 1..2 : pending[i].cont \in {"TRANSFER", "EXCHANGE"}

WritesOf(writes, kinds) == {i \in 1..Len(writes) : writes[i].cont \in kinds}

Issues(kind) ==
    /\ Len(pending') = Len(pending) + 1
    /\ pending'[Len(pending')].cont = kind

(* C7: Halt while halted and Restart while operational change nothing and  *)
(* charge nothing, also while the write of the first call is unresolved; a *)
(* halt (restart) write is issued only by a step that takes the system     *)
(* from operational to halted (halted to operational), and its cost 5 is   *)
(* charged once, by the step that retires that write.                      *)
C7_HaltRestartIdempotent ==
    [][ ~NothingTouched =>
        /\ ~(currentState.isHalted /\ actForcedHalt)
        /\ ~(~currentState.isHalted /\ actRestart)
        /\ Issues("HALT") => (~currentState.isHalted /\ currentState'.isHalted)
        /\ Issues("RESTART") => (currentState.isHalted /\ ~currentState'.isHalted)
        /\ \A i \in WritesOf(pending, {"HALT", "RESTART"}), ok \in BOOLEAN :
              Settle(i, ok) =>
                 /\ currentState'.vibration_level.value =
                       Min(Vibration + H(5), H(2 * VIBRATION_LIMIT))
                 /\ Cardinality(WritesOf(pending', {"HALT", "RESTART"}))
                       = Cardinality(WritesOf(pending, {"HALT", "RESTART"})) - 1
      ]_vars

(* Halted by a Halt whose write is unresolved, with a further call still   *)
(* possible: the second Halt is invoked here.                              *)
C7_Witness ==
    /\ currentState.isHalted
    /\ ~remoteDoc.isHalted
    /\ WritesOf(pending, {"HALT"}) # {}
    /\ budget > 0

ActKinds == {"HALT", "RESTART", "CREATE", "TRANSFER", "MINT", "EXCHANGE", "INFRA"}

(* An act has committed but its vibration cost is not charged yet. *)
Uncharged == WritesOf(pending, ActKinds) # {}

ActCommits == \E kind \in ActKinds : Issues(kind)

(* C8: validation, commit and charge of an act are one indivisible step:   *)
(* between an act's commit and the charging of its cost no other act       *)
(* commits and no decay tick runs.                                         *)
C8_ActsAreAtomic ==
    [][ Uncharged => ~(ActCommits \/ (decayVibration /\ ~NothingTouched)) ]_vars

CellDelta(i, k) == currentState'.accounts[i][k] - currentState.accounts[i][k]

SameAccountsBut(delta(_, _)) ==
    /\ Len(currentState'.accounts) = Len(currentState.accounts)
    /\ \A i \in 1..Len(currentState.accounts) :
          /\ currentState'.accounts[i].id = currentState.accounts[i].id
          /\ \A k \in CURRENCIES : CellDelta(i, k) = delta(currentState.accounts[i].id, k)

LedgerFields == {"accounts", "infrastructure", "isHalted"}

Keeps(fields) == \A f \in fields : currentState'[f] = currentState[f]

(* Every act invoked so far still has its write pending. *)
AllPending == Cardinality(WritesOf(pending, ActKinds)) = MaxActs - budget

(* C9: every accepted act computes its replacement from the local state of *)
(* the moment it is invoked, which holds the commits of all acts invoked   *)
(* before it whether or not their writes have resolved: the post-state is  *)
(* the pre-state with exactly this act's effect; the completion of a write *)
(* changes neither accounts, infrastructure nor isHalted, and so does a    *)
(* snapshot delivered while all the writes are pending.                    *)
C9_CommitsInInvocationOrder ==
    [][ ~NothingTouched =>
        /\ actForcedHalt =>
              currentState'.isHalted /\ Keeps({"accounts", "infrastructure"})
        /\ actRestart =>
              ~currentState'.isHalted /\ Keeps({"accounts", "infrastructure"})
        /\ \A newId \in IdInputs, newName \in NameInputs :
              handleCreateAccountAct(newId, newName) =>
                 /\ Len(currentState'.accounts) = Len(currentState.accounts) + 1
                 /\ SubSeq(currentState'.accounts, 1, Len(currentState.accounts))
                       = currentState.accounts
                 /\ currentState'.accounts[Len(currentState'.accounts)].id = newId
                 /\ Keeps({"infrastructure", "isHalted"})
        /\ \A s \in IdInputs, r \in IdInputs, a \in AmountInputs, c \in CurrencyInputs :
              actTransfer(s, r, a, c) =>
                 /\ LET d(id, k) == IF id = s /\ k = c THEN 0 - a
                                    ELSE IF id = r /\ k = c THEN a ELSE 0
                    IN SameAccountsBut(d)
                 /\ Keeps({"infrastructure", "isHalted"})
        /\ \A r \in IdInputs, a \in AmountInputs, c \in CurrencyInputs :
              actMintCurrency(r, a, c) =>
                 /\ LET d(id, k) == IF id = r /\ k = c THEN a ELSE 0
                    IN SameAccountsBut(d)
                 /\ Keeps({"infrastructure", "isHalted"})
        /\ \A x \in IdInputs, a \in AmountInputs, f \in CurrencyInputs, t \in CurrencyInputs :
              actExchangeCurrency(x, a, f, t) =>
                 /\ LET rates == currentState.currency_rates
                        d(id, k) == IF id = x /\ k = f THEN 0 - a
                                    ELSE IF id = x /\ k = t THEN (a * rates[t]) \div rates[f]
                                    ELSE 0
                    IN SameAccountsBut(d)
                 /\ Keeps({"infrastructure", "isHalted"})
        /\ \A kind \in InfraTypes, a \in SupplyInputs :
              actAdjustSupply(kind, a) =>
                 LET key == IF kind = "ENERGY" THEN "energy_supply" ELSE "net_stability"
                     old == currentState.infrastructure
                     new == currentState'.infrastructure
                 IN /\ DOMAIN new = DOMAIN old \cup {key}
                    /\ new[key].value = a
                    /\ \A k \in DOMAIN old : k # key => new[k] = old[k]
                    /\ Keeps({"accounts", "isHalted"})
        /\ \A i \in 1..Len(pending), ok \in BOOLEAN :
              Settle(i, ok) => Keeps(LedgerFields)
        /\ (AllPending /\ onSnapshot) => Keeps(LedgerFields)
      ]_vars

(* Two acts in flight, both on accounts: the local accounts hold the debit *)
(* of the first and the credits of both.                                   *)
C9_Witness ==
    /\ Len(pending) = 2
    /\ pending[1].cont = "TRANSFER"
    /\ pending[2].cont = "MINT"
    /\ Balance(currentState, "CORE_BANK_A", "ALPHA") = 100000 - 5000
    /\ Balance(currentState, "USER_AUDIT_B", "ALPHA") = 5000 + 5000 + 5000

(* C10: whenever the persistence collaborator pushes a snapshot back,      *)
(* whatever writes have completed, failed or are still pending, the local  *)
(* state keeps for every field the value applied locally last: the         *)
(* snapshot changes none of accounts, isHalted, infrastructure and         *)
(* vibration.                                                              *)
C10_SnapshotNeverReverts ==
    [][ onSnapshot => Keeps(LedgerFields \cup {"vibration_level"}) ]_vars

(* A step that issues a write: the queue does not shrink and ends with it. *)
IssuesWrite == pending' # pending /\ Len(pending') >= Len(pending)

(* C11: saveSystemState is local-first with no rollback: in the very step  *)
(* that issues a write the local state already holds its patch while the   *)
(* persisted document is not yet touched by it; when a write fails the     *)
(* document is unchanged, the local state keeps the patch, the write is    *)
(* dropped rather than retried, and the caller's continuation still runs   *)
(* (its cost is charged).                                                  *)
C11_LocalFirstNoRollback ==
    [][ ~NothingTouched =>
        /\ IssuesWrite =>
              LET w == pending'[Len(pending')]
              IN \A f \in DOMAIN w.patch : currentState'[f] = w.patch[f]
        /\ Len(pending') > Len(pending) => remoteDoc' = remoteDoc
        /\ \A i \in 1..Len(pending) :
              Settle(i, FALSE) =>
                 /\ remoteDoc' = remoteDoc
                 /\ Keeps(LedgerFields \cup {"currency_rates"})
                 /\ currentState'.vibration_level.value =
                       Min(Vibration + Cost(pending[i].cont), H(2 * VIBRATION_LIMIT))
                 /\ IF Cost(pending[i].cont) > 0
                    THEN Cardinality(WritesOf(pending', {pending[i].cont}))
                            = Cardinality(WritesOf(pending, {pending[i].cont})) - 1
                    ELSE Len(pending') = Len(pending) - 1
      ]_vars

(* A Halt whose write failed: the write is gone, the document was never    *)
(* halted, the local state still is.                                       *)
C11_Witness ==
    /\ currentState.isHalted
    /\ ~remoteDoc.isHalted
    /\ WritesOf(pending, ActKinds) = {}

(* What is read through the snapshots callInternalLogos holds. *)
Held(snapshots) == [i \in 1..Len(snapshots) |-> snapshots[i].vibration_level]

(* C12: a snapshot returned by getCurrentState never changes after it is   *)
(* taken: in every step the values read through the snapshots still held   *)
(* are the same as before; a step only adds a fresh snapshot at the end or *)
(* releases the oldest one.                                                *)
C12_SnapshotImmutable ==
    [][ \/ Held(logos') = Held(logos)
        \/ /\ Len(logos') = Len(logos) + 1
           /\ SubSeq(Held(logos'), 1, Len(logos)) = Held(logos)
        \/ /\ logos # <<>>
           /\ Held(logos') = Tail(Held(logos))
      ]_vars

ErrorKinds == <<"halted", "vibration", "amount", "currency", "sender", "recipient", "balance">>

(* The seven conditions of validate, in the order they are listed; the     *)
(* balance condition is read only where the sender and the currency exist. *)
Fails(s, r, a, c, state, isMint) ==
    << state.isHalted,
       state.vibration_level.value >= H(VIBRATION_LIMIT),
       InvalidAmount(a),
       c \notin CURRENCIES,
       ~isMint /\ ~HasAccount(state, s),
       r \notin {"", null} /\ ~HasAccount(state, r),
       ~isMint /\ HasAccount(state, s) /\ c \in CURRENCIES /\ ~isNaN(a)
          /\ Balance(state, s, c) < a >>

EarliestFailure(s, r, a, c, state, isMint) ==
    LET fails == Fails(s, r, a, c, state, isMint)
        failing == {k \in 1..7 : fails[k]}
    IN IF failing = {} THEN ""
       ELSE ErrorKinds[CHOOSE k \in failing : \A j \in failing : k <= j]

SenderInputs == IdInputs \cup {null}

(* C13: for every input and every reachable state validate reports the     *)
(* earliest failing condition in the order SystemHalted, VibrationExceeded,*)
(* InvalidAmount, UnknownCurrency, AccountNotFound(sender) unless isMint,  *)
(* AccountNotFound(recipient) if given, InsufficientBalance unless isMint, *)
(* and succeeds exactly when none fails.                                   *)
C13_ValidateReportsEarliestFailure ==
    \A s \in SenderInputs, r \in IdInputs, a \in AmountInputs,
       c \in CurrencyInputs, isMint \in BOOLEAN :
       validateAct(s, r, a, c, currentState, isMint).error
          = EarliestFailure(s, r, a, c, currentState, isMint)

(* Halted and at the vibration limit after an act: an input failing every  *)
(* later condition as well is reported as halted.                          *)
C13_Witness ==
    /\ currentState.isHalted
    /\ Vibration >= H(VIBRATION_LIMIT)
    /\ budget < MaxTimedActs
    /\ Cardinality({k \in 1..7 :
          Fails("", "NEW_C", NaN, "DELTA", currentState, FALSE)[k]}) >= 5
    /\ validateAct("", "NEW_C", NaN, "DELTA", currentState, FALSE).error = "halted"

AllFields == {"isHalted", "vibration_level", "currency_rates", "accounts", "infrastructure"}

Declared(kind) ==
    IF kind \in {"HALT", "RESTART"} THEN {"isHalted"}
    ELSE IF kind = "INFRA" THEN {"infrastructure"}
    ELSE {"accounts"}

ChargeKeepsRest ==
    /\ Keeps(AllFields \ {"vibration_level"})
    /\ currentState'.vibration_level.last_decay = currentState.vibration_level.last_decay

(* C14: the commit of an act changes at most the field the act declares    *)
(* (isHalted for Halt/Restart, accounts for CreateAccount, Transfer, Mint  *)
(* and Exchange, infrastructure for AdjustInfrastructureSupply), its       *)
(* charge changes only the vibration value, never lastDecay, and neither   *)
(* changes the currency rates.                                             *)
C14_ActsChangeOnlyDeclaredFields ==
    [][ ~NothingTouched =>
        /\ \A kind \in ActKinds :
              Issues(kind) => Keeps(AllFields \ Declared(kind))
        /\ \A i \in 1..Len(pending), ok \in BOOLEAN :
              Settle(i, ok) => ChargeKeepsRest
        /\ LogosTimer => ChargeKeepsRest
      ]_vars

(* An infrastructure act committed and charged after a decay tick moved    *)
(* lastDecay: the charge kept it.                                          *)
C14_Witness ==
    /\ currentState.vibration_level.last_decay >= 1
    /\ DOMAIN currentState.infrastructure # {}
    /\ WritesOf(pending, {"INFRALOG"}) # {}
    /\ pending[Len(pending)].patch.vibration_level = currentState.vibration_level

(* C15: in every reachable local state the account ids are pairwise        *)
(* distinct, also while CreateAccount calls are in flight.                 *)
C15_AccountIdsDistinct ==
    \A i \in 1..Len(currentState.accounts), j \in 1..Len(currentState.accounts) :
       i # j => currentState.accounts[i].id # currentState.accounts[j].id

(* An account created locally whose write is unresolved, with a further    *)
(* call still possible: the second CreateAccount with the same id is       *)
(* invoked here.                                                           *)
C15_Witness ==
    /\ HasAccount(currentState, "NEW_C")
    /\ ~HasAccount(remoteDoc, "NEW_C")
    /\ WritesOf(pending, {"CREATE"}) # {}
    /\ budget > 0

(* C16: CreateAccount(id, name) is rejected exactly when id is empty, id   *)
(* already exists or the system is halted, whatever the vibration level:   *)
(* in every other state the call commits, and a call that commits was in   *)
(* none of these cases; the commit appends exactly one account with that   *)
(* id and zero balance in every currency at the end of accounts, and the   *)
(* completion of its write charges vibration 1.                            *)
C16_CreateAccount ==
    /\ [](\A newId \in IdInputs, newName \in NameInputs :
             (~CreateMustReject(newId) /\ budget > 0) =>
                ENABLED (handleCreateAccountAct(newId, newName) /\ Issues("CREATE")))
    /\ [][ ~NothingTouched =>
           /\ \A newId \in IdInputs, newName \in NameInputs :
                 handleCreateAccountAct(newId, newName) =>
                    LET n == Len(currentState.accounts)
                        created == currentState'.accounts[n + 1]
                    IN /\ ~CreateMustReject(newId)
                       /\ Issues("CREATE")
                       /\ Len(currentState'.accounts) = n + 1
                       /\ SubSeq(currentState'.accounts, 1, n) = currentState.accounts
                       /\ created.id = newId
                       /\ \A c \in CURRENCIES : created[c] = 0
                       /\ Keeps(AllFields \ {"accounts"})
           /\ \A i \in WritesOf(pending, {"CREATE"}), ok \in BOOLEAN :
                 Settle(i, ok) =>
                    currentState'.vibration_level.value =
                       Min(Vibration + H(1), H(2 * VIBRATION_LIMIT))
         ]_vars

(* An account created and charged while the vibration was above the limit. *)
C16_Witness ==
    /\ HasAccount(currentState, "NEW_C")
    /\ \A c \in CURRENCIES : Balance(currentState, "NEW_C", c) = 0
    /\ WritesOf(pending, {"CREATE"}) = {}
    /\ Vibration = H(198) + H(1)

(* The amount a step charges: the cost of the act whose write it retires,  *)
(* or the 0.5 of an internal inference.                                    *)
AddsExactly(x) ==
    /\ currentState'.vibration_level.value >= Vibration
    /\ currentState'.vibration_level.value = Min(Vibration + x, H(2 * VIBRATION_LIMIT))
    /\ Vibration + x <= H(2 * VIBRATION_LIMIT) =>
          currentState'.vibration_level.value = Vibration + x
    /\ Vibration + x > H(2 * VIBRATION_LIMIT) =>
          currentState'.vibration_level.value = H(2 * VIBRATION_LIMIT)

(* C17: addVibration(x), x >= 0, never lowers the value: the new value is  *)
(* min(current + x, 2 x VIBRATION_LIMIT), exactly current + x below the    *)
(* ceiling and exactly the ceiling otherwise, also when applied at the     *)
(* ceiling.                                                                *)
C17_AddVibration ==
    [][ ~NothingTouched =>
        /\ \A i \in 1..Len(pending), ok \in BOOLEAN :
              (Cost(pending[i].cont) > 0 /\ Settle(i, ok)) => AddsExactly(Cost(pending[i].cont))
        /\ LogosTimer => AddsExactly(1)
      ]_vars

(* A charge applied at the ceiling: the value is 200 and the charge of an  *)
(* act invoked at 200 has been written.                                    *)
C17_Witness ==
    /\ remoteDoc.vibration_level.value = H(2 * VIBRATION_LIMIT)
    /\ Vibration = H(2 * VIBRATION_LIMIT)
    /\ now = 0
    /\ budget < MaxTimedActs
    /\ WritesOf(pending, {"NONE", "INFRALOG"}) # {}

(* C18: a decay tick never makes the value negative and never raises it:   *)
(* with elapsed = now - lastDecay, a tick with elapsed < 1 s changes        *)
(* nothing, and a tick with elapsed >= 1 s sets the value to               *)
(* max(0, current - elapsed x 0.5) and lastDecay to now, leaving every     *)
(* other field alone.                                                      *)
C18_Decay ==
    [][ decayVibration =>
        LET elapsed == now - currentState.vibration_level.last_decay
        IN IF elapsed < 1
           THEN UNCHANGED <<currentState, remoteDoc, pending>>
           ELSE /\ currentState'.vibration_level.value = Max(0, Vibration - elapsed)
                /\ currentState'.vibration_level.value >= 0
                /\ currentState'.vibration_level.value <= Vibration
                /\ currentState'.vibration_level.last_decay = now
                /\ Keeps(AllFields \ {"vibration_level"})
      ]_vars

(* A tick that had more to subtract than there was: the value stopped at 0 *)
(* and lastDecay moved to the time of the tick.                            *)
C18_Witness ==
    /\ Vibration = 0
    /\ now >= 1
    /\ currentState.vibration_level.last_decay = now
    /\ remoteDoc.vibration_level.last_decay = 0
    /\ budget = MaxTimedActs

(* The pending writes that patch field f, and the one issued last. *)
Patching(f) == {i \in 1..Len(pending) : f \in DOMAIN pending[i].patch}

LastPatchWins ==
    \A f \in AllFields :
       Patching(f) # {} =>
          LET last == CHOOSE i \in Patching(f) : \A j \in Patching(f) : j <= i
          IN currentState[f] = pending[last].patch[f]

(* C19: while the writes of all calls made so far are in flight, the local *)
(* state holds, for every field, the patch of the call applied last to     *)
(* that field, so patches of disjoint fields are all in effect; the step   *)
(* that applies a patch leaves every field outside the patch alone, and a  *)
(* write that completes puts exactly its patch into the persisted          *)
(* document, so the document holds both patches of two completed writes on *)
(* disjoint fields.                                                        *)
C19_ConcurrentApply ==
    /\ [](AllPending => LastPatchWins)
    /\ [][ ~NothingTouched =>
           /\ IssuesWrite =>
                 LET w == pending'[Len(pending')]
                 IN /\ \A f \in DOMAIN w.patch : currentState'[f] = w.patch[f]
                    /\ Keeps(AllFields \ DOMAIN w.patch)
           /\ \A i \in 1..Len(pending) :
                 Settle(i, TRUE) =>
                    /\ \A f \in DOMAIN pending[i].patch : remoteDoc'[f] = pending[i].patch[f]
                    /\ \A f \in AllFields \ DOMAIN pending[i].patch :
                          remoteDoc'[f] = remoteDoc[f]
         ]_vars

(* Two calls in flight on disjoint fields, neither write completed: the    *)
(* local state holds the infrastructure patch and the accounts patch.      *)
C19_Witness ==
    /\ Len(pending) = 2
    /\ pending[1].cont = "INFRA"
    /\ pending[2].cont = "CREATE"
    /\ currentState.infrastructure = pending[1].patch.infrastructure
    /\ currentState.accounts = pending[2].patch.accounts
    /\ remoteDoc = DefaultState

(* C20: isHalted is a global kill switch: no step taken while the system   *)
(* is halted changes accounts, infrastructure or the currency rates, and   *)
(* the only act that commits while halted is Restart.                      *)
C20_HaltBlocksEveryAct ==
    [][ currentState.isHalted =>
        /\ Keeps({"accounts", "infrastructure", "currency_rates"})
        /\ ActCommits => Issues("RESTART")
      ]_vars

GatedKinds == {"TRANSFER", "MINT", "EXCHANGE"}

(* C21: no Transfer, Mint or Exchange commits in a step whose pre-state is *)
(* halted or has vibration >= VIBRATION_LIMIT, whatever writes, charges    *)
(* and decay ticks are in flight.                                          *)
C21_GateHoldsAtCommit ==
    [][ (\E kind \in GatedKinds : Issues(kind)) => ~Gated(currentState) ]_vars

(* A ledger act committed below the limit and its charge took the          *)
(* vibration to the limit or above: the gate is now closed.                *)
C21_Witness ==
    /\ Vibration >= H(VIBRATION_LIMIT)
    /\ remoteDoc.vibration_level.value < H(VIBRATION_LIMIT)
    /\ currentState.accounts # DefaultAccounts
    /\ WritesOf(pending, GatedKinds) = {}
    /\ budget < MaxTimedActs

(* The step charges the cost of one act, once, by retiring its write. *)
ChargesOneAct ==
    \E i \in WritesOf(pending, ActKinds), ok \in BOOLEAN :
       /\ Settle(i, ok)
       /\ currentState'.vibration_level.value =
             Min(Vibration + Cost(pending[i].cont), H(2 * VIBRATION_LIMIT))
       /\ Cardinality(WritesOf(pending', ActKinds))
             = Cardinality(WritesOf(pending, ActKinds)) - 1

(* C22: with no decay tick and no reset, the vibration moves only when the *)
(* cost of a successful act is charged, by exactly that cost (Halt 5,      *)
(* Restart 5, CreateAccount 1, Transfer 2, Mint 3, Exchange 1,             *)
(* AdjustInfrastructureSupply 1, clamped at 200) and once per act, so      *)
(* after n successful acts from v it is min(v + sum of their costs, 200).  *)
C22_EachActChargesItsCostOnce ==
    [][ currentState'.vibration_level.value # Vibration => ChargesOneAct ]_vars

(* C23: a decay tick issues a write exactly when elapsed >= 1 s and the    *)
(* value changes by at least 1; when elapsed >= 1 s and the change is      *)
(* smaller, the local value and lastDecay are updated and nothing is sent, *)
(* so ticks exactly 1 s apart, decaying 0.5 each, are never persisted.     *)
C23_DecayPersistence ==
    [][ decayVibration =>
        LET elapsed == now - currentState.vibration_level.last_decay
            newValue == Max(0, Vibration - elapsed)
            big == elapsed >= 1 /\ Abs(newValue - Vibration) >= H(1)
        IN /\ (Len(pending') = Len(pending) + 1) <=> big
           /\ big => pending'[Len(pending')].patch =
                        [vibration_level |-> [value |-> newValue, last_decay |-> now]]
           /\ ~big => (pending' = pending /\ remoteDoc' = remoteDoc)
           /\ (elapsed >= 1 /\ ~big) =>
                 currentState'.vibration_level = [value |-> newValue, last_decay |-> now]
           /\ elapsed = 1 => pending' = pending
      ]_vars

(* A tick one second after the last one took 0.5 off the local value and   *)
(* sent nothing: the document still has the old value and lastDecay.       *)
C23_Witness ==
    /\ Vibration = remoteDoc.vibration_level.value - 1
    /\ currentState.vibration_level.last_decay = now
    /\ remoteDoc.vibration_level.last_decay = now - 1
    /\ pending = <<>>
    /\ budget = MaxTimedActs

TargetKey(kind) == IF kind = "ENERGY" THEN "energy_supply" ELSE "net_stability"

(* C24: AdjustInfrastructureSupply(kind, amount) is rejected exactly when  *)
(* amount is not a number or outside [0, 100]: any other call commits, and *)
(* a call that commits had its amount in range; the commit replaces only   *)
(* the entry named by kind with value = amount and lastChange = now and    *)
(* leaves the other entry alone, the completion of its write charges 1,    *)
(* and every infrastructure value in every reachable state is in [0, 100]. *)
C24_AdjustInfrastructureSupply ==
    /\ [](\A kind \in InfraTypes, a \in SupplyInputs :
             (~SupplyMustReject(a) /\ budget > 0) =>
                ENABLED (actAdjustSupply(kind, a) /\ Issues("INFRA")))
    /\ [](\A k \in DOMAIN currentState.infrastructure :
             /\ currentState.infrastructure[k].value >= 0
             /\ currentState.infrastructure[k].value <= 10000)
    /\ [][ ~NothingTouched =>
           /\ \A kind \in InfraTypes, a \in SupplyInputs :
                 actAdjustSupply(kind, a) =>
                    LET old == currentState.infrastructure
                        new == currentState'.infrastructure
                    IN /\ ~SupplyMustReject(a)
                       /\ Issues("INFRA")
                       /\ DOMAIN new = DOMAIN old \cup {TargetKey(kind)}
                       /\ new[TargetKey(kind)] = [value |-> a, last_change |-> now]
                       /\ \A k \in DOMAIN old : k # TargetKey(kind) => new[k] = old[k]
                       /\ Keeps(AllFields \ {"infrastructure"})
           /\ \A i \in WritesOf(pending, {"INFRA"}), ok \in BOOLEAN :
                 Settle(i, ok) =>
                    currentState'.vibration_level.value =
                       Min(Vibration + H(1), H(2 * VIBRATION_LIMIT))
         ]_vars

(* Both entries adjusted, one to each end of the range, the second while   *)
(* the first was already charged: the first entry is still in place.       *)
C24_Witness ==
    /\ DOMAIN currentState.infrastructure = {"energy_supply", "net_stability"}
    /\ currentState.infrastructure["energy_supply"].value = 10000
    /\ currentState.infrastructure["net_stability"].value = 0
    /\ Vibration = H(1)
    /\ Cardinality(WritesOf(pending, {"INFRA"})) = 1

Ids(state) == [i \in 1..Len(state.accounts) |-> state.accounts[i].id]

C26_OnlyConfiguredCurrencies ==
    \A i \in 1..Len(currentState.accounts) :
       LET account == currentState.accounts[i]
       IN /\ DOMAIN account \subseteq {"id", "name"} \cup CURRENCIES
          /\ \A c \in DOMAIN account \ {"id", "name"} : ~isNaN(account[c])

ValidTransfer == actTransfer("CORE_BANK_A", "USER_AUDIT_B", 5000, "ALPHA")
ValidMint == actMintCurrency("USER_AUDIT_B", 5000, "ALPHA")
ValidExchange == actExchangeCurrency("CORE_BANK_A", 5000, "ALPHA", "BETA")

(* C27: the vibration gate is never permanent: when no further act is      *)
(* invoked and the 1-second decay tick keeps firing, a vibration at or     *)
(* above VIBRATION_LIMIT eventually drops below the limit and eventually   *)
(* reaches 0, and in every Operational state below the limit a Transfer,   *)
(* a Mint and an Exchange with valid arguments are accepted.               *)
C27_GateNeverPermanent ==
    /\ (Vibration >= H(VIBRATION_LIMIT)) ~> (Vibration < H(VIBRATION_LIMIT))
    /\ (Vibration >= H(VIBRATION_LIMIT)) ~> (Vibration = 0)
    /\ [](~Gated(currentState) =>
            /\ ENABLED <<ValidTransfer>>_vars
            /\ ENABLED <<ValidMint>>_vars
            /\ ENABLED <<ValidExchange>>_vars)

(* The vibration has decayed from the limit to 0 by ticks that were never  *)
(* persisted (the document still holds a value at or above the limit), and *)
(* the Operational system accepts a Transfer again.                        *)
C27_Witness ==
    /\ Vibration = 0
    /\ ~currentState.isHalted
    /\ remoteDoc.vibration_level.value >= H(VIBRATION_LIMIT)
    /\ pending = <<>>
    /\ now > DecayClockStart
    /\ ENABLED <<ValidTransfer>>_vars

(* C28: a persistence failure does not abort an act: in the step in which  *)
(* the write of an act's commit fails, the local change of the act stays   *)
(* in place, the cost of the act is charged, once (one charge write takes  *)
(* the place of the act's write), and the local state and the writes in    *)
(* flight after the step are those the same step leaves when the write     *)
(* succeeds.                                                               *)
C28_FailedWriteDoesNotAbort ==
    [][ ~NothingTouched =>
        \A i \in WritesOf(pending, ActKinds) :
           Settle(i, FALSE) =>
              /\ Keeps(LedgerFields \cup {"currency_rates"})
              /\ currentState'.vibration_level =
                    [currentState.vibration_level EXCEPT
                       !.value = Min(Vibration + Cost(pending[i].cont),
                                     H(2 * VIBRATION_LIMIT))]
              /\ Len(pending') = Len(pending)
              /\ Cardinality(WritesOf(pending', ActKinds))
                    = Cardinality(WritesOf(pending, ActKinds)) - 1
              /\ pending'[Len(pending')].patch =
                    [vibration_level |-> currentState'.vibration_level]
              /\ \E local \in {currentState'}, writes \in {pending'} :
                    ENABLED (/\ Settle(i, TRUE)
                             /\ currentState' = local
                             /\ pending' = writes)
      ]_vars

(* A Mint whose write failed and whose cost has been charged: the credit   *)
(* is in the local state and not in the document.                          *)
C28_Witness ==
    /\ Balance(currentState, "USER_AUDIT_B", "ALPHA") = 10000
    /\ remoteDoc.accounts = DefaultAccounts
    /\ WritesOf(pending, ActKinds) = {}
    /\ Vibration = H(3)

-----------------------------------------------------------------------------
(* The LIL rules (logos_lil.js): a static table of triggers and actions.   *)
(* Vibration thresholds are in halves, supplies in hundredths, and         *)
(* vibration_cost in tenths.  A rule fires when all its triggers hold.     *)
LOGOS_LIL_RULES ==
    << [id |-> "LIL_001",
        triggers |-> << [type |-> "STATE_CHECK", param |-> "isHalted",
                         operator |-> "==", value |-> TRUE],
                        [type |-> "STATE_CHECK", param |-> "vibration_level.value",
                         operator |-> ">", value |-> 0] >>,
        actions |-> << [type |-> "LOG", level |-> "error"] >>,
        vibration_cost |-> 1],
       [id |-> "LIL_002",
        triggers |-> << [type |-> "STATE_CHECK", param |-> "vibration_level.value",
                         operator |-> ">", value |-> H(90)] >>,
        actions |-> << [type |-> "LOG", level |-> "warning"] >>,
        vibration_cost |-> 5],
       [id |-> "LIL_003",
        triggers |-> << [type |-> "SUPPLY_CHECK", param |-> "GAMMA",
                         operator |-> ">", value |-> 15000] >>,
        actions |-> << [type |-> "LOG", level |-> "audit"] >>,
        vibration_cost |-> 3] >>

TriggerParam(trigger, state) ==
    CASE trigger.type = "SUPPLY_CHECK" -> Supply(state, trigger.param)
      [] trigger.param = "isHalted" -> state.isHalted
      [] trigger.param = "vibration_level.value" -> state.vibration_level.value

TriggerHolds(trigger, state) ==
    CASE trigger.operator = "==" -> TriggerParam(trigger, state) = trigger.value
      [] trigger.operator = ">" -> TriggerParam(trigger, state) > trigger.value

RuleFires(rule, state) ==
    \A k \in 1..Len(rule.triggers) : TriggerHolds(rule.triggers[k], state)

LIL_002 == LOGOS_LIL_RULES[2]

====
